---- MODULE Spec2Model ----
(***************************************************************************)
(* Model of python-gateway/optimization_engine.py (the strategies and the  *)
(* UniversalOptimizationEngine) and of the bridge's optimize operation.    *)
(*                                                                         *)
(* A message content is a Python string over a small token alphabet: a     *)
(* content is a sequence of tokens [k |-> kind, n |-> characters], and its *)
(* text is the concatenation of the tokens' texts:                         *)
(*   "x"     n plain word characters     "sp"    n blanks                  *)
(*   "nl"    "\n"                        "fence" "```"                     *)
(*   "def"   "def "                      "class" "class "                  *)
(*   "ret"   "return "                   "colon" ":"                       *)
(*   "hash"  "#"                         "qm"    "?"                       *)
(*   "how"   "how"                                                         *)
(*   "trunc" "... (truncated)"           "dots"  "..."                     *)
(*   "elide" "// ..."                                                      *)
(* Floats are exact rationals <<num, den>> in lowest terms.  Optional      *)
(* fields are <<>> (None) or <<v>>.                                        *)
(***************************************************************************)
EXTENDS Integers, Sequences, FiniteSets, TLC

VARIABLES strategies, strategy_keys, default_strategy, call, result,
          registered, returned

(* strategies is the engine's dict self.strategies and strategy_keys the
   order of its keys (insertion order); registered and returned are history:
   every name ever passed to add_strategy, and calls that have returned with
   what they returned. *)
vars == <<strategies, strategy_keys, default_strategy, call, result, registered, returned>>

----------------------------------------------------------------------------
(* Rationals *)

Abs(i) == IF i < 0 THEN -i ELSE i

RECURSIVE Gcd(_, _)
Gcd(a, b) == IF b = 0 THEN a ELSE Gcd(b, a % b)

Rat(n, d) ==
    LET g == Gcd(Abs(n), Abs(d))
        s == IF d < 0 THEN -1 ELSE 1
    IN  IF n = 0 THEN <<0, 1>> ELSE <<(s * n) \div g, (s * d) \div g>>

RZero == <<0, 1>>
ROne == <<1, 1>>
RMul(a, b) == Rat(a[1] * b[1], a[2] * b[2])
RAdd(a, b) == Rat(a[1] * b[2] + b[1] * a[2], a[2] * b[2])
RDiv(a, b) == Rat(a[1] * b[2], a[2] * b[1])
RLt(a, b) == a[1] * b[2] < b[1] * a[2]
RLe(a, b) == a[1] * b[2] <= b[1] * a[2]
RMin(a, b) == IF RLt(b, a) THEN b ELSE a

None == <<>>
Some(v) == <<v>>

(* An Optional[datetime]: None, Some(d) for the offset-naive datetime of day
   d, Aware(d) for the offset-aware one. *)
Aware(d) == <<d, "+00:00">>
IsAware(timestamp) == Len(timestamp) = 2

----------------------------------------------------------------------------
(* Strings over the token alphabet *)

Tok(k, n) == [k |-> k, n |-> n]

tX(n) == <<Tok("x", n)>>
tSp(n) == <<Tok("sp", n)>>
tNl == <<Tok("nl", 1)>>
tFence == <<Tok("fence", 3)>>
tDef == <<Tok("def", 4)>>
tClass == <<Tok("class", 6)>>
tRet == <<Tok("ret", 7)>>
tColon == <<Tok("colon", 1)>>
tHash == <<Tok("hash", 1)>>
tQm == <<Tok("qm", 1)>>
tHow == <<Tok("how", 3)>>
TruncatedMarker == <<Tok("trunc", 15)>>
Ellipsis == <<Tok("dots", 3)>>
ElisionMarker == <<Tok("elide", 6)>>

RECURSIVE StrLen(_)
(* len(content) *)
StrLen(s) == IF s = <<>> THEN 0 ELSE Head(s).n + StrLen(Tail(s))

(* t[:k] of one token: a blank or plain run stays what it is, a cut keyword
   or marker is no longer that keyword *)
CutTok(t, k) ==
    IF t.k \in {"x", "sp"} THEN Tok(t.k, k) ELSE Tok("x", k)

RECURSIVE Slice(_, _)
(* content[:k], k >= 0 *)
Slice(s, k) ==
    IF s = <<>> \/ k <= 0 THEN <<>>
    ELSE IF Head(s).n <= k THEN <<Head(s)>> \o Slice(Tail(s), k - Head(s).n)
    ELSE <<CutTok(Head(s), k)>>

(* kind in content, for the one-token keywords *)
Has(s, k) == \E i \in 1..Len(s) : s[i].k = k

(* tokens of a content message estimate: len(content) // 4 *)
EstTokens(s) == StrLen(s) \div 4

----------------------------------------------------------------------------
(* ConversationMessage.  oid is the object's identity (id(msg)): the i-th
   message of the conversation has oid i, every object a strategy creates
   has oid 0.  pos is the original position a message is, or was derived
   from; no code reads it. *)

Msg(role, content, timestamp, tokens, score, mtype, oid, pos) ==
    [role |-> role, content |-> content, timestamp |-> timestamp,
     tokens |-> tokens, relevance_score |-> score, message_type |-> mtype,
     oid |-> oid, pos |-> pos]

(* the dataclass's generated __eq__: field by field, identity aside *)
MsgEq(a, b) ==
    /\ a.role = b.role
    /\ a.content = b.content
    /\ a.timestamp = b.timestamp
    /\ a.tokens = b.tokens
    /\ a.relevance_score = b.relevance_score
    /\ a.message_type = b.message_type

(* sum(len(msg.content) // 4 for msg in messages) *)
RECURSIVE SumTokens(_)
SumTokens(ms) ==
    IF ms = <<>> THEN 0 ELSE EstTokens(Head(ms).content) + SumTokens(Tail(ms))

----------------------------------------------------------------------------
(* StatisticalOptimizer *)

(* The cosine similarities of the TF-IDF vectors are an input of the model:
   sim[<<i, j>>], i < j, one rational in [0, 1] per pair of messages. *)
Cos(sim, i, j) == IF i < j THEN sim[<<i, j>>] ELSE sim[<<j, i>>]

RECURSIVE SumSim(_, _, _, _)
SumSim(sim, i, j, n) ==
    IF j > n THEN RZero
    ELSE IF j = i THEN SumSim(sim, i, j + 1, n)
    ELSE RAdd(Cos(sim, i, j), SumSim(sim, i, j + 1, n))

(* mutant: the scores come out in reverse order, and none for a message
   that has no other to compare with *)
calculate_relevance_Reversed(messages, sim) ==
    LET n == Len(messages)
    IN  IF n - 1 > 0
        THEN [i \in 1..n |-> RDiv(SumSim(sim, n + 1 - i, 1, n), <<n - 1, 1>>)]
        ELSE <<>>

(* calculate_relevance without a query: the average similarity to the
   other messages, 0 when there is none *)
calculate_relevance(messages, sim) ==
    LET n == Len(messages)
    IN  [i \in 1..n |->
            IF n - 1 > 0 THEN RDiv(SumSim(sim, i, 1, n), <<n - 1, 1>>)
            ELSE RZero]

(* 2.0 ** 1024 exceeds the largest float; 0.5 ** 1075 is below the smallest *)
OverflowExponent == 1024
UnderflowExponent == 1075

RECURSIVE Pow2(_)
Pow2(k) == IF k <= 0 THEN 1 ELSE 2 * Pow2(k - 1)

(* 0.3 + 0.7 * 0.5 ** (time_diff / 24), time_diff = 24 * d hours; from
   0.5 ** 1075 on the power is 0.0 *)
DecayBlend(d) ==
    IF d >= UnderflowExponent THEN <<3, 10>>
    ELSE IF d >= 0 THEN Rat(3 * Pow2(d) + 7, 10 * Pow2(d))
    ELSE Rat(3 + 7 * Pow2(-d), 10)

(* 0.5 + 0.5 * (i / total), i counted from 0 *)
PositionFactor(i, total) == Rat(total + i, 2 * total)

(* the timestamp of the last message, in list order, that has one *)
RECURSIVE MostRecent(_, _)
MostRecent(messages, i) ==
    IF i = 0 THEN None
    ELSE IF messages[i].timestamp # None THEN messages[i].timestamp
    ELSE MostRecent(messages, i - 1)

(* the exception the loop of _apply_time_decay raises at message i, if any:
   most_recent - msg.timestamp is a TypeError between an offset-naive and an
   offset-aware datetime, and 0.5 ** (time_diff / 24) an OverflowError from
   2 ** 1024 on *)
DecayException(messages, most_recent, i) ==
    IF messages[i].timestamp = None THEN None
    ELSE IF IsAware(messages[i].timestamp) # IsAware(most_recent)
    THEN Some("TypeError")
    ELSE IF most_recent[1] - messages[i].timestamp[1] <= -OverflowExponent
    THEN Some("OverflowError")
    ELSE None

(* the first exception of _apply_time_decay, None if it returns *)
time_decay_exception(messages) ==
    LET n == Len(messages)
        most_recent == MostRecent(messages, n)
        failing == {i \in 1..n : DecayException(messages, most_recent, i) # None}
    IN  IF n = 0 \/ most_recent = None \/ failing = {} THEN None
        ELSE DecayException(messages, most_recent,
                            CHOOSE i \in failing : \A j \in failing : i <= j)

apply_time_decay(messages, relevance_scores) ==
    LET n == Len(messages)
        most_recent == MostRecent(messages, n)
    IN  IF n = 0 THEN relevance_scores
        ELSE IF most_recent = None THEN
            [i \in 1..n |-> RMul(relevance_scores[i], PositionFactor(i - 1, n))]
        ELSE
            [i \in 1..n |->
                IF messages[i].timestamp # None
                THEN RMul(relevance_scores[i],
                          DecayBlend(most_recent[1] - messages[i].timestamp[1]))
                ELSE RMul(relevance_scores[i], PositionFactor(i - 1, n))]

detect_message_type(message) ==
    IF Has(message.content, "fence") \/ Has(message.content, "def") THEN "code"
    ELSE IF /\ message.role = "user"
            /\ \/ Has(message.content, "qm")
               \/ (message.content # <<>> /\ Head(message.content).k = "how")
         THEN "question"
    ELSE IF message.role = "system" THEN "system"
    ELSE "response"

priority_multipliers(msg_type) ==
    CASE msg_type = "code" -> <<3, 2>>
      [] msg_type = "question" -> <<13, 10>>
      [] msg_type = "system" -> <<7, 10>>
      [] OTHER -> ROne

apply_type_priority(messages, scores) ==
    [i \in 1..Len(messages) |->
        RMul(scores[i], priority_multipliers(detect_message_type(messages[i])))]

(* message_data.sort(key=score, reverse=True): a stable sort, so messages of
   equal score stay in conversation order.  The result is the sequence of
   original positions in the order the walk meets them. *)
(* mutant: a message goes before the messages of equal score *)
RECURSIVE InsertDesc_TiesReversed(_, _, _)
InsertDesc_TiesReversed(order, i, scores) ==
    IF order = <<>> THEN <<i>>
    ELSE IF RLe(scores[Head(order)], scores[i]) THEN <<i>> \o order
    ELSE <<Head(order)>> \o InsertDesc_TiesReversed(Tail(order), i, scores)

RECURSIVE InsertDesc(_, _, _)
InsertDesc(order, i, scores) ==
    IF order = <<>> THEN <<i>>
    ELSE IF RLt(scores[Head(order)], scores[i]) THEN <<i>> \o order
    ELSE <<Head(order)>> \o InsertDesc(Tail(order), i, scores)

RECURSIVE SortDesc(_, _)
SortDesc(k, scores) ==
    IF k = 0 THEN <<>> ELSE InsertDesc(SortDesc(k - 1, scores), k, scores)

MinTruncateTokens == 50

(* total_tokens < max_tokens * 0.8 *)
BelowEighty(total_tokens, max_tokens) == 5 * total_tokens < 4 * max_tokens

(* mutant: the message itself is cut, no copy is made *)
TruncatedCopy_InPlace(msg, score, available_tokens, original_index) ==
    [msg EXCEPT !.content =
                    Slice(msg.content, available_tokens * 4) \o TruncatedMarker,
                !.tokens = Some(available_tokens),
                !.relevance_score = Some(score)]

TruncatedCopy(msg, score, available_tokens, original_index) ==
    Msg(msg.role,
        Slice(msg.content, available_tokens * 4) \o TruncatedMarker,
        msg.timestamp, Some(available_tokens), Some(score), msg.message_type,
        0, original_index)

(* mutant: the walk goes on after the truncated copy *)
RECURSIVE SelectWalk_NoBreak(_, _, _, _, _, _)
SelectWalk_NoBreak(messages, scores, max_tokens, order, selected, total_tokens) ==
    IF order = <<>> THEN selected
    ELSE
        LET original_index == Head(order)
            msg == messages[original_index]
            msg_tokens == EstTokens(msg.content)
            available_tokens == max_tokens - total_tokens
        IN  IF total_tokens + msg_tokens <= max_tokens THEN
                SelectWalk_NoBreak(messages, scores, max_tokens, Tail(order),
                                   selected \cup {<<original_index, msg>>},
                                   total_tokens + msg_tokens)
            ELSE IF /\ BelowEighty(total_tokens, max_tokens)
                    /\ available_tokens > MinTruncateTokens THEN
                SelectWalk_NoBreak(messages, scores, max_tokens, Tail(order),
                    selected \cup
                        {<<original_index,
                           TruncatedCopy(msg, scores[original_index],
                                         available_tokens, original_index)>>},
                    total_tokens)
            ELSE
                SelectWalk_NoBreak(messages, scores, max_tokens, Tail(order),
                                   selected, total_tokens)

(* the for loop of _select_optimal_subset; selected is a set of
   <<original_index, message>> *)
RECURSIVE SelectWalk(_, _, _, _, _, _)
SelectWalk(messages, scores, max_tokens, order, selected, total_tokens) ==
    IF order = <<>> THEN selected
    ELSE
        LET original_index == Head(order)
            msg == messages[original_index]
            msg_tokens == EstTokens(msg.content)
            available_tokens == max_tokens - total_tokens
        IN  IF total_tokens + msg_tokens <= max_tokens THEN
                SelectWalk(messages, scores, max_tokens, Tail(order),
                           selected \cup {<<original_index, msg>>},
                           total_tokens + msg_tokens)
            ELSE IF /\ BelowEighty(total_tokens, max_tokens)
                    /\ available_tokens > MinTruncateTokens THEN
                selected \cup
                    {<<original_index,
                       TruncatedCopy(msg, scores[original_index],
                                     available_tokens, original_index)>>}
            ELSE
                SelectWalk(messages, scores, max_tokens, Tail(order),
                           selected, total_tokens)

(* selected.sort(key=original_index); return the messages *)
RECURSIVE ByIndex(_, _, _)
ByIndex(selected, i, n) ==
    IF i > n THEN <<>>
    ELSE (IF \E e \in selected : e[1] = i
          THEN <<(CHOOSE e \in selected : e[1] = i)[2]>> ELSE <<>>)
         \o ByIndex(selected, i + 1, n)

select_optimal_subset(messages, scores, max_tokens) ==
    ByIndex(SelectWalk(messages, scores, max_tokens,
                       SortDesc(Len(messages), scores), {}, 0),
            1, Len(messages))

StatisticalOptimize(messages, sim, max_tokens) ==
    LET relevance_scores == calculate_relevance(messages, sim)
        decayed_scores == apply_time_decay(messages, relevance_scores)
        prioritized_scores == apply_type_priority(messages, decayed_scores)
    IN  select_optimal_subset(messages, prioritized_scores, max_tokens)

----------------------------------------------------------------------------
(* HybridOptimizer *)

FlowContentCap == 500

Oids(ms) == {ms[i].oid : i \in 1..Len(ms)}

(* mutant: the response is the original object, not a capped copy *)
TruncatedResponse_Original(next_msg, pos) == next_msg

TruncatedResponse(next_msg, pos) ==
    Msg(next_msg.role,
        IF StrLen(next_msg.content) > FlowContentCap
        THEN Slice(next_msg.content, FlowContentCap) \o Ellipsis
        ELSE next_msg.content,
        next_msg.timestamp, None, Some(<<1, 2>>), next_msg.message_type,
        0, pos)

(* mutant: the response is added without testing that it was not selected *)
RECURSIVE FlowWalk_NoSelectedTest(_, _, _)
FlowWalk_NoSelectedTest(original_messages, selected_indices, i) ==
    IF i > Len(original_messages) THEN <<>>
    ELSE
        LET msg == original_messages[i]
        IN  (IF msg.oid \in selected_indices THEN
                <<msg>> \o
                (IF /\ msg.role = "user"
                    /\ i + 1 <= Len(original_messages)
                    /\ original_messages[i + 1].role = "assistant"
                 THEN <<TruncatedResponse(original_messages[i + 1], i + 1)>>
                 ELSE <<>>)
             ELSE <<>>)
            \o FlowWalk_NoSelectedTest(original_messages, selected_indices, i + 1)

RECURSIVE FlowWalk(_, _, _)
FlowWalk(original_messages, selected_indices, i) ==
    IF i > Len(original_messages) THEN <<>>
    ELSE
        LET msg == original_messages[i]
        IN  (IF msg.oid \in selected_indices THEN
                <<msg>> \o
                (IF /\ msg.role = "user"
                    /\ i + 1 <= Len(original_messages)
                    /\ original_messages[i + 1].role = "assistant"
                    /\ original_messages[i + 1].oid \notin selected_indices
                 THEN <<TruncatedResponse(original_messages[i + 1], i + 1)>>
                 ELSE <<>>)
             ELSE <<>>)
            \o FlowWalk(original_messages, selected_indices, i + 1)

(* mutant: selections of one or two messages are walked like any other *)
preserve_conversation_flow_NoShortcut(original_messages, selected_messages) ==
    FlowWalk(original_messages, Oids(selected_messages), 1)

preserve_conversation_flow(original_messages, selected_messages) ==
    IF Len(selected_messages) <= 2 THEN selected_messages
    ELSE FlowWalk(original_messages, Oids(selected_messages), 1)

contains_code(content) ==
    Has(content, "fence") \/ Has(content, "def") \/ Has(content, "class")

(* content.split('\n') *)
RECURSIVE SplitLines(_, _)
SplitLines(s, cur) ==
    IF s = <<>> THEN <<cur>>
    ELSE IF Head(s).k = "nl" THEN <<cur>> \o SplitLines(Tail(s), <<>>)
    ELSE SplitLines(Tail(s), Append(cur, Head(s)))

RECURSIVE LStrip(_)
LStrip(line) ==
    IF line # <<>> /\ Head(line).k = "sp" THEN LStrip(Tail(line)) ELSE line

RECURSIVE RStrip(_)
RStrip(line) ==
    IF line # <<>> /\ line[Len(line)].k = "sp"
    THEN RStrip(SubSeq(line, 1, Len(line) - 1)) ELSE line

(* line.strip(), as tokens; the blank that ends a last "def ", "class " or
   "return " token is stripped with it (see EndsBare) *)
Strip(line) == RStrip(LStrip(line))

(* line[:line.index(stripped)]: the leading blanks *)
Indentation(line) == SubSeq(line, 1, Len(line) - Len(LStrip(line)))

(* stripped.startswith(kw) for a keyword that ends in a blank: the keyword
   token is first and is not what the stripped line ends with *)
StartsWithKeyword(stripped) ==
    Len(stripped) > 1 /\ stripped[1].k \in {"def", "class"}

(* 'return ' in stripped *)
ContainsReturn(stripped) ==
    \E i \in 1..(Len(stripped) - 1) : stripped[i].k = "ret"

EndsWithElision(line) ==
    LET t == Strip(line) IN t # <<>> /\ t[Len(t)].k = "elide"

KeptInBlock(stripped) ==
    \/ StartsWithKeyword(stripped)
    \/ (stripped # <<>> /\ stripped[Len(stripped)].k = "colon")
    \/ ContainsReturn(stripped)
    \/ (stripped # <<>> /\ stripped[1].k = "elide")
    \/ (stripped # <<>> /\ stripped[1].k = "hash")
    \/ stripped = <<>>

RECURSIVE CondenseLines(_, _, _)
CondenseLines(lines, condensed_lines, in_code_block) ==
    IF lines = <<>> THEN condensed_lines
    ELSE
        LET line == Head(lines)
            stripped == Strip(line)
        IN  IF stripped # <<>> /\ stripped[1].k = "fence" THEN
                CondenseLines(Tail(lines), Append(condensed_lines, line),
                              ~in_code_block)
            ELSE IF in_code_block THEN
                IF KeptInBlock(stripped) THEN
                    CondenseLines(Tail(lines), Append(condensed_lines, line),
                                  in_code_block)
                ELSE IF /\ Len(condensed_lines) > 0
                        /\ ~EndsWithElision(condensed_lines[Len(condensed_lines)])
                     THEN
                    CondenseLines(Tail(lines),
                                  Append(condensed_lines,
                                         Indentation(line) \o ElisionMarker),
                                  in_code_block)
                ELSE CondenseLines(Tail(lines), condensed_lines, in_code_block)
            ELSE
                CondenseLines(Tail(lines), Append(condensed_lines, line),
                              in_code_block)

(* '\n'.join(lines) *)
RECURSIVE JoinLines(_)
JoinLines(lines) ==
    IF lines = <<>> THEN <<>>
    ELSE IF Len(lines) = 1 THEN Head(lines)
    ELSE Head(lines) \o tNl \o JoinLines(Tail(lines))

condense_code_content(content) ==
    JoinLines(CondenseLines(SplitLines(content, <<>>), <<>>, FALSE))

EnhancedMsg(msg) ==
    Msg(msg.role, condense_code_content(msg.content), msg.timestamp, None,
        msg.relevance_score, Some("code"), 0, msg.pos)

enhance_code_context(messages) ==
    [i \in 1..Len(messages) |->
        IF contains_code(messages[i].content) THEN EnhancedMsg(messages[i])
        ELSE messages[i]]

(* msg.relevance_score or 0 *)
ScoreOrZero(msg) ==
    IF msg.relevance_score = None THEN RZero ELSE msg.relevance_score[1]

(* the greedy loop of _final_token_fitting, over the positions of the
   working list in descending score order *)
(* mutant: each message is tested against the budget on its own *)
RECURSIVE FitWalk_PerMessage(_, _, _, _)
FitWalk_PerMessage(messages, max_tokens, order, current_tokens) ==
    IF order = <<>> THEN <<>>
    ELSE
        IF EstTokens(messages[Head(order)].content) <= max_tokens
        THEN <<Head(order)>> \o
             FitWalk_PerMessage(messages, max_tokens, Tail(order), current_tokens)
        ELSE FitWalk_PerMessage(messages, max_tokens, Tail(order), current_tokens)

RECURSIVE FitWalk(_, _, _, _)
FitWalk(messages, max_tokens, order, current_tokens) ==
    IF order = <<>> THEN <<>>
    ELSE
        LET msg_tokens == EstTokens(messages[Head(order)].content)
        IN  IF current_tokens + msg_tokens <= max_tokens
            THEN <<Head(order)>> \o
                 FitWalk(messages, max_tokens, Tail(order),
                         current_tokens + msg_tokens)
            ELSE FitWalk(messages, max_tokens, Tail(order), current_tokens)

(* messages.index(msg): the first position holding an equal message *)
IndexOf(messages, msg) ==
    CHOOSE i \in 1..Len(messages) :
        /\ MsgEq(messages[i], msg)
        /\ \A j \in 1..(i - 1) : ~MsgEq(messages[j], msg)

(* selected.sort(key=messages.index): stable, ascending *)
RECURSIVE InsertAsc(_, _, _)
InsertAsc(sorted, k, messages) ==
    IF sorted = <<>> THEN <<k>>
    ELSE IF IndexOf(messages, messages[k]) < IndexOf(messages, messages[Head(sorted)])
         THEN <<k>> \o sorted
    ELSE <<Head(sorted)>> \o InsertAsc(Tail(sorted), k, messages)

RECURSIVE SortByIndex(_, _)
SortByIndex(selected, messages) ==
    IF selected = <<>> THEN <<>>
    ELSE InsertAsc(SortByIndex(SubSeq(selected, 1, Len(selected) - 1), messages),
                   selected[Len(selected)], messages)

final_token_fitting(messages, max_tokens) ==
    IF SumTokens(messages) <= max_tokens THEN messages
    ELSE
        LET scores == [i \in 1..Len(messages) |-> ScoreOrZero(messages[i])]
            order == SortDesc(Len(messages), scores)
            selected == FitWalk(messages, max_tokens, order, 0)
            back == SortByIndex(selected, messages)
        IN  [i \in 1..Len(back) |-> messages[back[i]]]

HybridOptimize(messages, sim, max_tokens) ==
    LET statistical_result == StatisticalOptimize(messages, sim, max_tokens)
        flow_optimized == preserve_conversation_flow(messages, statistical_result)
        code_enhanced == enhance_code_context(flow_optimized)
    IN  final_token_fitting(code_enhanced, max_tokens)

----------------------------------------------------------------------------
(* UniversalOptimizationEngine *)

QualityFloor == 5000

(* the registry of __init__: name -> strategy object *)
InitialStrategies ==
    [name \in {"statistical", "hybrid"} |->
        IF name = "statistical" THEN "StatisticalOptimizer"
        ELSE "HybridOptimizer"]

Max(a, b) == IF a > b THEN a ELSE b
Min(a, b) == IF a < b THEN a ELSE b

(* strategy or self.default_strategy: None and '' are falsy *)
StrategyName(strategy, default) ==
    IF strategy = None \/ strategy = Some("") THEN default ELSE strategy[1]

(* mutant: an unknown name falls back to a fixed registry entry *)
ResolveOptimizer_FixedFallback(registry, strategy_name, default) ==
    IF strategy_name \in DOMAIN registry THEN registry[strategy_name]
    ELSE registry["statistical"]

(* self.strategies.get(strategy_name, self.strategies[self.default_strategy]) *)
ResolveOptimizer(registry, strategy_name, default) ==
    IF strategy_name \in DOMAIN registry THEN registry[strategy_name]
    ELSE registry[default]

(* mutant: max where the code takes min *)
EffectiveMaxTokens_Raised(max_tokens, preserve_quality, original_tokens) ==
    IF preserve_quality
    THEN Max(max_tokens, Max(QualityFloor, original_tokens \div 2))
    ELSE max_tokens

EffectiveMaxTokens(max_tokens, preserve_quality, original_tokens) ==
    IF preserve_quality
    THEN Min(max_tokens, Max(QualityFloor, original_tokens \div 2))
    ELSE max_tokens

RunOptimizer(optimizer, messages, sim, max_tokens) ==
    IF optimizer = "StatisticalOptimizer"
    THEN StatisticalOptimize(messages, sim, max_tokens)
    ELSE HybridOptimize(messages, sim, max_tokens)

count_conversation_pairs(messages) ==
    Cardinality({i \in 1..(Len(messages) - 1) :
        messages[i].role = "user" /\ messages[i + 1].role = "assistant"})

(* sum(1 for msg in messages if '```' in msg.content) *)
CodeCount(messages) ==
    Cardinality({i \in 1..Len(messages) : Has(messages[i].content, "fence")})

QualitySum(original_messages, optimized_messages) ==
    LET message_ratio == Rat(Len(optimized_messages), Len(original_messages))
        original_code_count == CodeCount(original_messages)
        code_preservation ==
            IF original_code_count > 0
            THEN Rat(CodeCount(optimized_messages), original_code_count)
            ELSE ROne
        original_pairs == count_conversation_pairs(original_messages)
        flow_preservation ==
            IF original_pairs > 0
            THEN Rat(count_conversation_pairs(optimized_messages), original_pairs)
            ELSE ROne
    IN  RAdd(RAdd(RMul(message_ratio, <<3, 10>>),
                  RMul(code_preservation, <<4, 10>>)),
             RMul(flow_preservation, <<3, 10>>))

(* mutant: the final min(1.0, ...) left out *)
calculate_quality_score_Unclamped(original_messages, optimized_messages) ==
    IF original_messages = <<>> THEN ROne
    ELSE QualitySum(original_messages, optimized_messages)

calculate_quality_score(original_messages, optimized_messages) ==
    IF original_messages = <<>> THEN ROne
    ELSE RMin(ROne, QualitySum(original_messages, optimized_messages))

ReductionPercentage(original_tokens, optimized_tokens) ==
    IF original_tokens > 0
    THEN Rat((original_tokens - optimized_tokens) * 100, original_tokens)
    ELSE RZero

(* optimize_context; sim stands for the similarities calculate_relevance
   computes from the contents *)
(* an exception leaves the call instead of a result *)
Raised(kind) == [exception |-> Some(kind)]

(* the exceptions optimizer.optimize raises on a conversation *)
OptimizerRaises(messages) == time_decay_exception(messages)

optimize_context(registry, default, messages, sim, max_tokens, strategy, preserve_quality) ==
    IF OptimizerRaises(messages) # None THEN Raised(OptimizerRaises(messages)[1]) ELSE
    LET strategy_name == StrategyName(strategy, default)
        optimizer == ResolveOptimizer(registry, strategy_name, default)
        original_tokens == SumTokens(messages)
        effective_max_tokens ==
            EffectiveMaxTokens(max_tokens, preserve_quality, original_tokens)
        optimized_messages ==
            RunOptimizer(optimizer, messages, sim, effective_max_tokens)
        optimized_tokens == SumTokens(optimized_messages)
    IN  [optimized_messages |-> optimized_messages,
         original_tokens |-> original_tokens,
         optimized_tokens |-> optimized_tokens,
         reduction_percentage |->
             ReductionPercentage(original_tokens, optimized_tokens),
         strategy_used |-> strategy_name,
         quality_score |-> calculate_quality_score(messages, optimized_messages),
         effective_max_tokens |-> effective_max_tokens,
         delegated |-> Some(optimizer),
         exception |-> None]

RecommendHybridAbove == 50000

(* int(x) of a non-negative float *)
RTrunc(r) == r[1] \div r[2]

(* mutant: min where the code takes max *)
EstimatedTokens_Min(max_tokens, original_tokens, estimated_reduction) ==
    Min(max_tokens,
        RTrunc(RMul(<<original_tokens, 1>>,
                    RAdd(ROne, RMul(<<-1, 1>>, estimated_reduction)))))

(* max(max_tokens, int(original_tokens * (1 - estimated_reduction))) *)
EstimatedTokens(max_tokens, original_tokens, estimated_reduction) ==
    Max(max_tokens,
        RTrunc(RMul(<<original_tokens, 1>>,
                    RAdd(ROne, RMul(<<-1, 1>>, estimated_reduction)))))

(* estimate_optimization: the dict it returns; delegated records that no
   strategy is called *)
estimate_optimization(messages, max_tokens) ==
    LET original_tokens == SumTokens(messages)
        estimated_reduction == <<3, 4>>
        estimated_tokens ==
            EstimatedTokens(max_tokens, original_tokens, estimated_reduction)
    IN  [original_tokens |-> original_tokens,
         estimated_optimized_tokens |-> estimated_tokens,
         estimated_reduction_percentage |->
             RMul(estimated_reduction, <<100, 1>>),
         feasible |-> original_tokens > max_tokens,
         recommended_strategy |->
             IF original_tokens > RecommendHybridAbove
             THEN "hybrid" ELSE "statistical",
         estimated_processing_time |->
             RMin(<<2, 1>>, Rat(original_tokens, 10000)),
         delegated |-> None,
         exception |-> None]

----------------------------------------------------------------------------
(* Inputs *)

MaxMsgs == 3
SimDen == 1

Template(role, content, timestamp) ==
    [role |-> role, content |-> content, timestamp |-> timestamp]

CodeSnippet == tFence \o tNl \o tX(1) \o tNl \o tFence

Templates ==
    { Template("user", tX(8), None),
      Template("assistant", tX(8), None),
      Template("user", tX(208), Some(1)),
      Template("assistant", tX(600), None),
      Template("assistant", CodeSnippet, Some(0)),
      Template("system", tX(48000), None),
      Template("user", tX(7) \o tQm, None) }

(* the ConversationMessage objects a caller builds: no tokens, no score *)
Conversation(ts) ==
    [i \in 1..Len(ts) |->
        Msg(ts[i].role, ts[i].content, ts[i].timestamp, None, None,
            Some("response"), i, i)]

TemplateSeqs(T, n) == UNION {[1..k -> T] : k \in 0..n}

Pairs(n) == {p \in (1..n) \X (1..n) : p[1] < p[2]}

(* With one or two documents every term shared by two documents has
   idf = log(1) = 0, so every similarity is 0. *)
Sims(n) ==
    IF n <= 2 THEN {[p \in Pairs(n) |-> RZero]}
    ELSE [Pairs(n) -> {Rat(k, SimDen) : k \in 0..SimDen}]

Budgets == {0, 53, 100, 6000, 1000000}

StrategyArgs == {None, Some("statistical"), Some("hybrid"), Some("neural")}

NoCall ==
    [op |-> "none", messages |-> <<>>, sim |-> <<>>, max_tokens |-> 0,
     strategy |-> None, preserve_quality |-> FALSE]

NoResult ==
    [optimized_messages |-> <<>>, original_tokens |-> 0,
     optimized_tokens |-> 0, reduction_percentage |-> RZero,
     strategy_used |-> "", quality_score |-> RZero,
     effective_max_tokens |-> 0, delegated |-> None, exception |-> None]

Init ==
    /\ strategies = InitialStrategies
    /\ default_strategy = "hybrid"
    /\ call = NoCall
    /\ result = NoResult
    /\ strategy_keys = <<"statistical", "hybrid">>
    /\ registered = {}
    /\ returned = {}

(* mutant: the engine remembers the last registered strategy it was asked
   for as its default *)
OptimizeContext_KeepsStrategy(messages, sim, max_tokens, strategy, preserve_quality) ==
    /\ call' = [op |-> "optimize_context", messages |-> messages, sim |-> sim,
                max_tokens |-> max_tokens, strategy |-> strategy,
                preserve_quality |-> preserve_quality]
    /\ result' = optimize_context(strategies, default_strategy, messages, sim,
                                  max_tokens, strategy, preserve_quality)
    /\ default_strategy' =
            IF StrategyName(strategy, default_strategy) \in DOMAIN strategies
            THEN StrategyName(strategy, default_strategy)
            ELSE default_strategy
    /\ UNCHANGED <<strategies, strategy_keys, registered, returned>>

(* The caller awaits one call at a time: a call is made when none is
   outstanding, and Return hands its result over. *)
OptimizeContext(messages, sim, max_tokens, strategy, preserve_quality) ==
    /\ call' = [op |-> "optimize_context", messages |-> messages, sim |-> sim,
                max_tokens |-> max_tokens, strategy |-> strategy,
                preserve_quality |-> preserve_quality]
    /\ result' = optimize_context(strategies, default_strategy, messages, sim,
                                  max_tokens, strategy, preserve_quality)
    /\ UNCHANGED <<strategies, strategy_keys, default_strategy, registered, returned>>

Return ==
    /\ call.op # "none"
    /\ call' = NoCall
    /\ result' = NoResult
    /\ UNCHANGED <<strategies, strategy_keys, default_strategy, registered, returned>>

CallOptimize ==
    /\ call.op = "none"
    /\ \E ts \in TemplateSeqs(Templates, MaxMsgs) :
        \E sim \in Sims(Len(ts)), max_tokens \in Budgets,
           strategy \in StrategyArgs, preserve_quality \in BOOLEAN :
            OptimizeContext(Conversation(ts), sim, max_tokens, strategy,
                            preserve_quality)

Next == CallOptimize \/ Return

Spec == Init /\ [][Next]_vars

----------------------------------------------------------------------------
(* Properties of optimize_context *)

Optimized == call.op = "optimize_context"

ResolvedOptimizer ==
    ResolveOptimizer(strategies,
                     StrategyName(call.strategy, default_strategy),
                     default_strategy)

NoMessageOverBudget ==
    \A i \in 1..Len(call.messages) :
        EstTokens(call.messages[i].content) <= result.effective_max_tokens

IsTruncatedCopy(m) ==
    /\ m.oid = 0
    /\ m.content # <<>>
    /\ m.content[Len(m.content)].k = "trunc"

(* C1: for a non-empty conversation none of whose messages alone exceeds
   the effective budget, optimized_tokens is at most the effective budget,
   whatever the strategy. *)
C1_WithinBudget ==
    (Optimized /\ call.messages # <<>> /\ NoMessageOverBudget)
        => result.optimized_tokens <= result.effective_max_tokens

(* C3: reduction_percentage lies in [0, 100], and is 0 when original_tokens
   is 0. *)
C3_ReductionInRange ==
    Optimized =>
        /\ RLe(RZero, result.reduction_percentage)
        /\ RLe(result.reduction_percentage, <<100, 1>>)
        /\ (result.original_tokens = 0 => result.reduction_percentage = RZero)

UnknownStrategy ==
    /\ call.strategy # None
    /\ call.strategy # Some("")
    /\ call.strategy[1] \notin DOMAIN strategies

(* C5: with a strategy name that is not registered, strategy_used is the
   default strategy's name, not the name supplied. *)
C5_UnknownReportsDefault ==
    (Optimized /\ UnknownStrategy) => result.strategy_used = default_strategy

(* C6: a call with an unregistered name, or with no name, returns the same
   messages, token counts and quality score as the same call naming the
   default strategy. *)
C6_FallbackEqualsDefault ==
    (Optimized /\ (call.strategy = None \/ UnknownStrategy)) =>
        LET r == optimize_context(strategies, default_strategy, call.messages,
                                  call.sim, call.max_tokens,
                                  Some(default_strategy), call.preserve_quality)
        IN  /\ result.optimized_messages = r.optimized_messages
            /\ result.original_tokens = r.original_tokens
            /\ result.optimized_tokens = r.optimized_tokens
            /\ result.quality_score = r.quality_score

(* an unknown name whose fallback matters: the statistical strategy would
   have returned something else *)
C6_Witness ==
    /\ Optimized
    /\ UnknownStrategy
    /\ result.optimized_messages # <<>>
    /\ result.optimized_messages #
           StatisticalOptimize(call.messages, call.sim,
                               result.effective_max_tokens)

(* C7: the budget handed to the strategy is
   min(max_tokens, max(5000, original_tokens // 2)) with preserve_quality and
   max_tokens without; it never exceeds max_tokens, and with preserve_quality
   it is max_tokens whenever max_tokens <= 5000. *)
C7_EffectiveBudget ==
    Optimized =>
        LET half == result.original_tokens \div 2
            floor == IF half > 5000 THEN half ELSE 5000
        IN  /\ call.preserve_quality =>
                result.effective_max_tokens =
                    (IF call.max_tokens < floor THEN call.max_tokens ELSE floor)
            /\ ~call.preserve_quality =>
                result.effective_max_tokens = call.max_tokens
            /\ result.effective_max_tokens <= call.max_tokens
            /\ (call.preserve_quality /\ call.max_tokens <= 5000) =>
                result.effective_max_tokens = call.max_tokens

(* quality mode lowers the caller's budget to half the original tokens *)
C7_Witness ==
    /\ Optimized
    /\ call.preserve_quality
    /\ result.original_tokens \div 2 > 5000
    /\ result.effective_max_tokens = result.original_tokens \div 2
    /\ result.effective_max_tokens < call.max_tokens

(* C8: a single message whose estimate exceeds a budget of more than 50
   tokens comes back as exactly one truncated copy, under the statistical
   and under the default (hybrid) strategy. *)
C8_SingleMessageTruncated ==
    (/\ Optimized
     /\ Len(call.messages) = 1
     /\ result.effective_max_tokens > 50
     /\ EstTokens(call.messages[1].content) > result.effective_max_tokens)
        => /\ Len(result.optimized_messages) = 1
           /\ IsTruncatedCopy(result.optimized_messages[1])
           /\ result.optimized_messages[1].pos = 1

NoCodeMessage ==
    \A i \in 1..Len(call.messages) :
        /\ detect_message_type(call.messages[i]) # "code"
        /\ ~contains_code(call.messages[i].content)

(* C9: when the whole conversation fits the effective budget and no message
   is classified as code, every original message is returned verbatim and in
   order, reduction_percentage is 0 and quality_score is 1. *)
C9_FitsVerbatim ==
    (/\ Optimized
     /\ result.original_tokens <= result.effective_max_tokens
     /\ NoCodeMessage)
        => /\ result.optimized_messages = call.messages
           /\ result.reduction_percentage = RZero
           /\ result.quality_score = ROne

(* three messages with a user -> assistant pair, all kept by the hybrid
   strategy's flow pass *)
C9_Witness ==
    /\ Optimized
    /\ ResolvedOptimizer = "HybridOptimizer"
    /\ Len(call.messages) = 3
    /\ count_conversation_pairs(call.messages) > 0
    /\ result.original_tokens > 0
    /\ result.original_tokens <= result.effective_max_tokens
    /\ NoCodeMessage
    /\ result.optimized_messages = call.messages

----------------------------------------------------------------------------
(* Conversations with messages of identical field values *)

DuplicateTemplates ==
    { Template("user", tX(160), None),
      Template("assistant", tX(40), None),
      Template("assistant", tX(500), None) }

CallOptimizeDuplicates ==
    /\ call.op = "none"
    /\ \E ts \in [1..4 -> DuplicateTemplates] :
        \E sim \in Sims(Len(ts)),
           strategy \in {Some("statistical"), Some("hybrid")} :
            OptimizeContext(Conversation(ts), sim, 100, strategy, FALSE)

NextDuplicates == CallOptimizeDuplicates \/ Return

SpecDuplicates == Init /\ [][NextDuplicates]_vars

(* C2: the optimized messages are in ascending original-position order, at
   most one per original position, also for conversations with messages of
   identical field values and after the hybrid final re-fit. *)
C2_ChronologicalOrder ==
    Optimized =>
        \A i, j \in 1..Len(result.optimized_messages) :
            i < j => result.optimized_messages[i].pos
                        < result.optimized_messages[j].pos

----------------------------------------------------------------------------
(* _calculate_quality_score on arbitrary pairs of message sequences *)

MaxQualityLen == 2

QualityTemplates ==
    { Template(role, content, None) :
        role \in {"user", "assistant", "system"},
        content \in {tX(8), CodeSnippet} }

QualityScore(original_messages, optimized_messages) ==
    /\ call' = [NoCall EXCEPT !.op = "calculate_quality_score",
                              !.messages = original_messages]
    /\ result' = [NoResult EXCEPT
                    !.optimized_messages = optimized_messages,
                    !.quality_score =
                        calculate_quality_score(original_messages,
                                                optimized_messages)]
    /\ UNCHANGED <<strategies, strategy_keys, default_strategy, registered, returned>>

CallQualityScore ==
    /\ call.op = "none"
    /\ \E o \in TemplateSeqs(QualityTemplates, MaxQualityLen),
          p \in TemplateSeqs(QualityTemplates, MaxQualityLen) :
            QualityScore(Conversation(o), Conversation(p))

NextQuality == CallQualityScore \/ Return

SpecQuality == Init /\ [][NextQuality]_vars

(* C4: quality_score is within [0, 1] for every pair of original and
   optimized sequences, an empty original and an empty optimized included. *)
C4_QualityInUnitInterval ==
    call.op = "calculate_quality_score" =>
        /\ RLe(RZero, result.quality_score)
        /\ RLe(result.quality_score, ROne)

(* the weighted sum exceeds 1 and the score is capped *)
C4_Witness ==
    /\ call.op = "calculate_quality_score"
    /\ call.messages # <<>>
    /\ RLt(ROne, QualitySum(call.messages, result.optimized_messages))
    /\ result.quality_score = ROne

----------------------------------------------------------------------------
(* Scenario C: six messages alternating user / assistant, exactly one of
   them holding a fenced code block *)

ScenarioRole(i) == IF i % 2 = 1 THEN "user" ELSE "assistant"

LongCode == tFence \o tNl \o tX(600) \o tNl \o tFence

ScenarioConversation(code_pos, code) ==
    Conversation([i \in 1..6 |->
        Template(ScenarioRole(i),
                 IF i = code_pos THEN code ELSE tX(200), None)])

(* similarities of a conversation in which the messages of `cluster` share
   one vocabulary and the others share nothing *)
ClusterSim(n, cluster) ==
    [p \in Pairs(n) |->
        IF p[1] \in cluster /\ p[2] \in cluster THEN ROne ELSE RZero]

CallOptimizeScenarioC ==
    /\ call.op = "none"
    /\ \E code_pos \in 1..6, code \in {CodeSnippet, LongCode},
          cluster \in SUBSET (1..6), max_tokens \in {100, 150, 250},
          strategy \in {Some("statistical"), Some("hybrid")} :
            OptimizeContext(ScenarioConversation(code_pos, code),
                            ClusterSim(6, cluster), max_tokens, strategy,
                            FALSE)

NextScenarioC == CallOptimizeScenarioC \/ Return

SpecScenarioC == Init /\ [][NextScenarioC]_vars

CodePos == CHOOSE i \in 1..Len(call.messages) :
               Has(call.messages[i].content, "fence")

StatisticalOmitsCode ==
    LET stat == StatisticalOptimize(call.messages, call.sim,
                                    result.effective_max_tokens)
    IN  \A i \in 1..Len(stat) : stat[i].pos # CodePos

HybridCalledWhereStatisticalOmitsCode ==
    /\ Optimized
    /\ Len(call.messages) = 6
    /\ ResolvedOptimizer = "HybridOptimizer"
    /\ StatisticalOmitsCode

(* C10 as claimed: where the statistical result omits the code message, the
   hybrid result for the same conversation and budget still contains it. *)
C10_HybridRetainsCode ==
    HybridCalledWhereStatisticalOmitsCode =>
        \E i \in 1..Len(result.optimized_messages) :
            /\ result.optimized_messages[i].pos = CodePos
            /\ Has(result.optimized_messages[i].content, "fence")

(* C10 amended: where the statistical result omits the code message, the
   hybrid result never holds the original code message; it holds a message
   of the code position only as the flow pass's copy (relevance 0.5) of an
   assistant message whose preceding user message the selection kept,
   more than two messages being selected; so none at all when the code
   message is a user message. *)
C10_HybridCodeOnlyByFlowCopy ==
    HybridCalledWhereStatisticalOmitsCode =>
        LET stat == StatisticalOptimize(call.messages, call.sim,
                                        result.effective_max_tokens)
        IN  \A i \in 1..Len(result.optimized_messages) :
                result.optimized_messages[i].pos = CodePos =>
                    /\ result.optimized_messages[i].oid = 0
                    /\ result.optimized_messages[i].relevance_score
                           = Some(<<1, 2>>)
                    /\ result.optimized_messages[i].role = "assistant"
                    /\ Len(stat) > 2
                    /\ \E j \in 1..Len(stat) :
                        /\ stat[j].pos = CodePos - 1
                        /\ stat[j].oid = CodePos - 1
                        /\ stat[j].role = "user"

(* the code message comes back as a flow copy *)
C10_Witness ==
    /\ HybridCalledWhereStatisticalOmitsCode
    /\ \E i \in 1..Len(result.optimized_messages) :
        /\ result.optimized_messages[i].pos = CodePos
        /\ Has(result.optimized_messages[i].content, "fence")

----------------------------------------------------------------------------
(* Calls of optimize_context and estimate_optimization on one engine, in any
   order; a returning call may be remembered in returned. *)

CallTemplates ==
    { Template("user", tX(8), None),
      Template("assistant", tX(208), Some(1)),
      Template("user", tX(200000), None) }

MaxCallLen == 2

CallBudgets == {-1, 53}

EstimateOptimization(messages, max_tokens) ==
    /\ call' = [op |-> "estimate_optimization", messages |-> messages,
                sim |-> <<>>, max_tokens |-> max_tokens, strategy |-> None,
                preserve_quality |-> FALSE]
    /\ result' = estimate_optimization(messages, max_tokens)
    /\ UNCHANGED <<strategies, strategy_keys, default_strategy, registered, returned>>

CallEstimate ==
    /\ call.op = "none"
    /\ \E ts \in TemplateSeqs(CallTemplates, MaxCallLen), max_tokens \in CallBudgets :
        EstimateOptimization(Conversation(ts), max_tokens)

CallOptimizeAmongCalls ==
    /\ call.op = "none"
    /\ \E ts \in TemplateSeqs(CallTemplates, MaxCallLen) :
        \E sim \in Sims(Len(ts)), max_tokens \in CallBudgets,
           strategy \in {None, Some("statistical"), Some("neural")},
           preserve_quality \in BOOLEAN :
            OptimizeContext(Conversation(ts), sim, max_tokens, strategy,
                            preserve_quality)

(* the caller keeps what the call returned *)
ReturnRemembered ==
    /\ call.op # "none"
    /\ returned' = {<<call, result>>}
    /\ call' = NoCall
    /\ result' = NoResult
    /\ UNCHANGED <<strategies, strategy_keys, default_strategy, registered>>

NextCalls == CallOptimizeAmongCalls \/ CallEstimate \/ Return \/ ReturnRemembered

SpecCalls == Init /\ [][NextCalls]_vars

Estimated == call.op = "estimate_optimization"

(* C11: estimate_optimization returns original_tokens = the sum of
   len(content)//4, an estimated reduction of 75 percent, estimated tokens =
   max(max_tokens, original_tokens * 25 / 100 rounded down), feasible exactly
   when original_tokens > max_tokens, 'hybrid' exactly when original_tokens >
   50000 and 'statistical' otherwise, and calls no strategy. *)
C11_Estimate ==
    Estimated =>
        LET original == SumTokens(call.messages)
        IN  /\ result.original_tokens = original
            /\ result.estimated_reduction_percentage = <<75, 1>>
            /\ result.estimated_optimized_tokens =
                    (IF call.max_tokens > (original * 25) \div 100
                     THEN call.max_tokens ELSE (original * 25) \div 100)
            /\ result.estimated_optimized_tokens >= call.max_tokens
            /\ result.feasible <=> original > call.max_tokens
            /\ result.recommended_strategy = "hybrid" <=> original > 50000
            /\ result.recommended_strategy = "statistical" <=> original <= 50000
            /\ result.delegated = None
            /\ result.exception = None

(* an estimate of a conversation above 50000 tokens whose quarter exceeds
   the budget *)
C11_Witness ==
    /\ Estimated
    /\ result.recommended_strategy = "hybrid"
    /\ result.feasible
    /\ result.estimated_optimized_tokens > call.max_tokens
    /\ call.max_tokens > 0

(* C12: with no add_strategy, a call's result depends only on its
   arguments: a call repeated after any other calls returns what it returned
   before; no call changes the registry, the default strategy name or a
   conversation: every original message in a result still has the fields it
   was passed with. *)
C12_CallsIndependent ==
    /\ strategies = InitialStrategies
    /\ strategy_keys = <<"statistical", "hybrid">>
    /\ default_strategy = "hybrid"
    /\ \A e \in returned : e[1] = call => e[2] = result
    /\ Optimized =>
        \A i \in 1..Len(result.optimized_messages) :
            LET m == result.optimized_messages[i]
            IN  m.oid # 0 => m = call.messages[m.oid]

(* a call repeated after it was remembered, returning an original message
   and a truncated copy *)
C12_Witness ==
    /\ Optimized
    /\ \E e \in returned : e[1] = call
    /\ Len(result.optimized_messages) = 2
    /\ \E i \in 1..2 : result.optimized_messages[i].oid = 0
    /\ \E i \in 1..2 : result.optimized_messages[i].oid # 0

----------------------------------------------------------------------------
(* BridgeOptimizer.  A JSON value of the request is a record [t, v]: t is
   "absent" for a missing key, "null", "string", "number", "bool" or
   "array". *)

JAbsent == [t |-> "absent"]
JNull == [t |-> "null"]
JString(v) == [t |-> "string", v |-> v]
JNumber(v) == [t |-> "number", v |-> v]
JBool(v) == [t |-> "bool", v |-> v]
JArray(v) == [t |-> "array", v |-> v]

(* dict.get(key, default): the default only for a missing key *)
Get(value, default) == IF value.t = "absent" THEN default ELSE value

(* An ISO-8601 timestamp string is [day, zone, valid]: zone "Z" or "" (no
   offset), valid FALSE for text fromisoformat rejects. *)
IsoString(day, zone, valid) == [day |-> day, zone |-> zone, valid |-> valid]

(* the timestamp of one msg_data; now is datetime.now() *)
ParseTimestamp(value, now) ==
    IF value.t \in {"absent", "null"} THEN None
    ELSE IF ~value.v.valid THEN Some(now)
    ELSE IF value.v.zone = "Z" THEN Aware(value.v.day)
    ELSE Some(value.v.day)

(* parse_request raises TypeError on messages: null (not iterable) and on a
   content that is null (len() at the total_tokens sum) *)
parse_request_raises(request_data) ==
    LET messages == Get(request_data.messages, JArray(<<>>))
    IN  \/ messages.t # "array"
        \/ \E i \in 1..Len(messages.v) :
               Get(messages.v[i].content, JString(<<>>)).t # "string"

parse_request(request_data, now) ==
    LET messages == Get(request_data.messages, JArray(<<>>)).v
    IN  [i \in 1..Len(messages) |->
            Msg(Get(messages[i].role, JString("user")).v,
                Get(messages[i].content, JString(<<>>)).v,
                ParseTimestamp(messages[i].timestamp, now),
                None, None,
                Some(Get(messages[i].message_type, JString("response")).v),
                i, i)]

(* msg.timestamp.isoformat() if msg.timestamp else None *)
IsoFormat(timestamp) ==
    IF timestamp = None THEN JNull
    ELSE JString(IsoString(timestamp[1],
                           IF IsAware(timestamp) THEN "+00:00" ELSE "", TRUE))

FormatMessage(msg) ==
    [role |-> msg.role, content |-> msg.content,
     timestamp |-> IsoFormat(msg.timestamp),
     relevance_score |-> msg.relevance_score,
     message_type |-> msg.message_type]

(* mutant: the failure response keeps the strategy asked for *)
format_response_KeepsFields(res, success, error, elapsed) ==
    IF ~success THEN
        [success |-> FALSE,
         error |-> IF error = None \/ error = Some(<<>>)
                   THEN <<"Unknown error">> ELSE error[1],
         original_tokens |-> 0, optimized_tokens |-> 0,
         reduction_percentage |-> RZero, quality_score |-> RZero,
         processing_time |-> 0, strategy_used |-> "hybrid",
         optimized_messages |-> <<>>]
    ELSE
        [success |-> TRUE,
         original_tokens |-> res.original_tokens,
         optimized_tokens |-> res.optimized_tokens,
         reduction_percentage |-> res.reduction_percentage,
         quality_score |-> res.quality_score,
         processing_time |-> elapsed * 1000,
         strategy_used |-> res.strategy_used,
         optimized_messages |->
             [i \in 1..Len(res.optimized_messages) |->
                 FormatMessage(res.optimized_messages[i])]]

(* format_response; elapsed is result.processing_time *)
format_response(res, success, error, elapsed) ==
    IF ~success THEN
        [success |-> FALSE,
         error |-> IF error = None \/ error = Some(<<>>)
                   THEN <<"Unknown error">> ELSE error[1],
         original_tokens |-> 0, optimized_tokens |-> 0,
         reduction_percentage |-> RZero, quality_score |-> RZero,
         processing_time |-> 0, strategy_used |-> "error",
         optimized_messages |-> <<>>]
    ELSE
        [success |-> TRUE,
         original_tokens |-> res.original_tokens,
         optimized_tokens |-> res.optimized_tokens,
         reduction_percentage |-> res.reduction_percentage,
         quality_score |-> res.quality_score,
         processing_time |-> elapsed * 1000,
         strategy_used |-> res.strategy_used,
         optimized_messages |->
             [i \in 1..Len(res.optimized_messages) |->
                 FormatMessage(res.optimized_messages[i])]]

DefaultMaxTokens == 20000

(* the strategy argument the engine receives *)
StrategyArg(value) ==
    LET strategy == Get(value, JString("hybrid"))
    IN  IF strategy.t = "null" THEN None ELSE Some(strategy.v)

(* With max_tokens: null the engine compares an int with None: in
   min(max_tokens, ...) under preserve_quality, in the selector's loop for
   every message, and in the hybrid strategy's final fitting. *)
null_budget_raises(registry, default, messages, strategy, preserve_quality) ==
    LET optimizer ==
            ResolveOptimizer(registry, StrategyName(strategy, default), default)
    IN  \/ preserve_quality
        \/ messages # <<>>
        \/ optimizer = "HybridOptimizer"

(* the exception raised inside the try block of optimize, if any *)
bridge_exception(registry, default, request_data, now) ==
    IF parse_request_raises(request_data) THEN Some("TypeError")
    ELSE
        LET messages == parse_request(request_data, now)
            max_tokens == Get(request_data.max_tokens, JNumber(DefaultMaxTokens))
            strategy == StrategyArg(request_data.strategy)
            preserve_quality == Get(request_data.preserve_quality, JBool(TRUE)).v
        IN  IF /\ max_tokens.t = "null"
               /\ null_budget_raises(registry, default, messages, strategy,
                                     preserve_quality)
            THEN Some("TypeError")
            ELSE OptimizerRaises(messages)

(* BridgeOptimizer.optimize: the response dict.  With max_tokens: null and
   no exception the conversation is empty and no budget is read. *)
bridge_optimize(registry, default, request_data, sim, now, elapsed) ==
    LET exception == bridge_exception(registry, default, request_data, now)
    IN  IF exception # None THEN
            format_response(None, FALSE,
                            Some(<<"Optimization failed: ", exception[1]>>), 0)
        ELSE
            LET max_tokens == Get(request_data.max_tokens, JNumber(DefaultMaxTokens))
            IN  format_response(
                    optimize_context(registry, default,
                        parse_request(request_data, now), sim,
                        IF max_tokens.t = "null" THEN 0 ELSE max_tokens.v,
                        StrategyArg(request_data.strategy),
                        Get(request_data.preserve_quality, JBool(TRUE)).v),
                    TRUE, None, elapsed)

MaxRequestLen == 2

MessageData(role, content, timestamp) ==
    [role |-> role, content |-> content, timestamp |-> timestamp,
     message_type |-> JAbsent]

RequestMessages ==
    { MessageData(JString("user"), JString(tX(8)), JAbsent),
      MessageData(JAbsent, JString(tX(208)),
                  JString(IsoString(1, "Z", TRUE))),
      MessageData(JString("assistant"), JString(tX(600)),
                  JString(IsoString(0, "", TRUE))),
      MessageData(JString("assistant"), JString(CodeSnippet),
                  JString(IsoString(0, "", FALSE))),
      MessageData(JString("user"), JNull, JAbsent) }

Requests ==
    [messages : {JNull} \cup
                {JArray(ms) : ms \in TemplateSeqs(RequestMessages, MaxRequestLen)},
     max_tokens : {JAbsent, JNull, JNumber(53)},
     strategy : {JAbsent, JNull, JString("statistical"), JString("neural")},
     preserve_quality : {JAbsent, JBool(FALSE)}]

Elapsed == {0, 1}

BridgeOptimize(request_data, sim, now, elapsed) ==
    /\ call' = [op |-> "bridge_optimize", request_data |-> request_data,
                exception |-> bridge_exception(strategies, default_strategy,
                                               request_data, now)]
    /\ result' = bridge_optimize(strategies, default_strategy, request_data,
                                 sim, now, elapsed)
    /\ UNCHANGED <<strategies, strategy_keys, default_strategy, registered, returned>>

CallBridge ==
    /\ call.op = "none"
    /\ \E request_data \in Requests, elapsed \in Elapsed :
        \E sim \in Sims(IF request_data.messages.t = "array"
                        THEN Len(request_data.messages.v) ELSE 0) :
            BridgeOptimize(request_data, sim, 2, elapsed)

NextBridge == CallBridge \/ Return

SpecBridge == Init /\ [][NextBridge]_vars

(* C13: every exception raised while parsing, scoring or selecting becomes
   one failure response: success false, a non-empty error string, all
   numeric fields 0, strategy_used "error" and no optimized message; a
   success response has no error field and a failure response has no
   optimized message. *)
C13_FailureResponse ==
    call.op = "bridge_optimize" =>
        /\ call.exception # None =>
            /\ result.success = FALSE
            /\ "error" \in DOMAIN result
            /\ result.error # <<>>
            /\ result.original_tokens = 0
            /\ result.optimized_tokens = 0
            /\ result.reduction_percentage = RZero
            /\ result.quality_score = RZero
            /\ result.processing_time = 0
            /\ result.strategy_used = "error"
            /\ result.optimized_messages = <<>>
        /\ call.exception = None => result.success
        /\ result.success => "error" \notin DOMAIN result
        /\ ~result.success => result.optimized_messages = <<>>

(* a request whose timestamps mix offset-aware and offset-naive datetimes
   fails in scoring *)
C13_Witness ==
    /\ call.op = "bridge_optimize"
    /\ call.exception # None
    /\ ~parse_request_raises(call.request_data)
    /\ call.request_data.max_tokens.t = "number"
    /\ ~result.success

----------------------------------------------------------------------------
(* Degenerate inputs: the empty conversation, budgets of zero and below *)

MaxDegenerateLen == 2

DegenerateTemplates ==
    { Template("user", tX(3), None),
      Template("user", tX(8), None),
      Template("assistant", tX(208), Some(0)),
      Template("user", tX(8), Some(2000)),
      Template("assistant", CodeSnippet, None) }

DegenerateBudgets == {-100, -1, 0}

CallOptimizeDegenerate ==
    /\ call.op = "none"
    /\ \E ts \in TemplateSeqs(DegenerateTemplates, MaxDegenerateLen) :
        \E sim \in Sims(Len(ts)), max_tokens \in DegenerateBudgets,
           strategy \in StrategyArgs, preserve_quality \in BOOLEAN :
            OptimizeContext(Conversation(ts), sim, max_tokens, strategy,
                            preserve_quality)

NextDegenerate == CallOptimizeDegenerate \/ Return

SpecDegenerate == Init /\ [][NextDegenerate]_vars

(* C14: for the empty conversation, and for any conversation with a zero or
   negative max_tokens, optimize_context completes without raising under
   every strategy; the empty conversation yields 0 original tokens, 0
   optimized tokens, a reduction of 0 and no message. *)
C14_DegenerateInputsValid ==
    (Optimized /\ (call.messages = <<>> \/ call.max_tokens <= 0)) =>
        /\ result.exception = None
        /\ call.messages = <<>> =>
            /\ result.original_tokens = 0
            /\ result.optimized_tokens = 0
            /\ result.reduction_percentage = RZero
            /\ result.optimized_messages = <<>>

----------------------------------------------------------------------------
(* The strategy registry: add_strategy, get_available_strategies and
   optimize_context on one engine *)

StrategyNames == {"statistical", "hybrid", "fast", ""}

(* strategy objects: instances of the two strategy classes *)
StrategyObjects == {"StatisticalOptimizer", "HybridOptimizer"}

(* self.strategies[name] = strategy: a new key goes to the end of the dict,
   a known key keeps its place *)
AddStrategy(name, strategy) ==
    /\ strategies' =
            [k \in DOMAIN strategies \cup {name} |->
                IF k = name THEN strategy ELSE strategies[k]]
    /\ strategy_keys' =
            IF name \in DOMAIN strategies THEN strategy_keys
            ELSE Append(strategy_keys, name)
    /\ registered' = {e \in registered : e[1] # name} \cup {<<name, strategy>>}
    /\ call' = [op |-> "add_strategy", name |-> name, strategy |-> strategy]
    /\ result' = NoResult
    /\ UNCHANGED <<default_strategy, returned>>

CallAddStrategy ==
    /\ call.op = "none"
    /\ \E name \in StrategyNames, strategy \in StrategyObjects :
        AddStrategy(name, strategy)

(* list(self.strategies.keys()) *)
get_available_strategies(registry, keys) == keys

GetAvailableStrategies ==
    /\ call.op = "none"
    /\ call' = [op |-> "get_available_strategies"]
    /\ result' = [names |-> get_available_strategies(strategies, strategy_keys)]
    /\ UNCHANGED <<strategies, strategy_keys, default_strategy, registered, returned>>

RegistryTemplates ==
    { Template("user", tX(8), None), Template("user", tX(208), None) }

CallOptimizeRegistered ==
    /\ call.op = "none"
    /\ \E ts \in {<<t1, t2>> : t1 \in RegistryTemplates, t2 \in RegistryTemplates},
          strategy \in {None} \cup {Some(name) : name \in StrategyNames} :
        OptimizeContext(Conversation(ts), [p \in Pairs(2) |-> RZero], 53,
                        strategy, FALSE)

NextRegistry ==
    CallAddStrategy \/ GetAvailableStrategies \/ CallOptimizeRegistered \/ Return

SpecRegistry == Init /\ [][NextRegistry]_vars

(* the strategy most recently registered under a name: the one of the last
   add_strategy, else the one of __init__ *)
LatestRegistered(name) ==
    IF \E e \in registered : e[1] = name
    THEN (CHOOSE e \in registered : e[1] = name)[2]
    ELSE InitialStrategies[name]

Listed(names) == {names[i] : i \in 1..Len(names)}

(* C15: the registry initially lists exactly 'statistical' and 'hybrid';
   after any add_strategy calls get_available_strategies lists every name
   ever registered, each once; and optimize_context naming a registered
   strategy delegates to the strategy most recently registered under that
   name. *)
C15_RegistryListsAndDelegates ==
    /\ registered = {} => strategy_keys = <<"statistical", "hybrid">>
    /\ call.op = "get_available_strategies" =>
        /\ Listed(result.names) =
               {"statistical", "hybrid"} \cup {e[1] : e \in registered}
        /\ Cardinality(Listed(result.names)) = Len(result.names)
    /\ \A name \in DOMAIN strategies : strategies[name] = LatestRegistered(name)
    /\ (Optimized /\ call.strategy # None /\ call.strategy[1] \in DOMAIN strategies) =>
        result.delegated = Some(LatestRegistered(call.strategy[1]))

----------------------------------------------------------------------------
(* The quality score of conversations where dropping a message brings a
   user message next to an assistant message *)

PairsLen == 5

PairsTemplates ==
    { Template("user", tX(8), None),
      Template("assistant", tX(8), None),
      Template("system", tX(48000), None) }

CallOptimizePairs ==
    /\ call.op = "none"
    /\ \E ts \in [1..PairsLen -> PairsTemplates], max_tokens \in {10, 1000000},
          strategy \in {Some("statistical"), Some("hybrid")} :
        OptimizeContext(Conversation(ts), [p \in Pairs(PairsLen) |-> RZero],
                        max_tokens, strategy, FALSE)

NextPairs == CallOptimizePairs \/ Return

SpecPairs == Init /\ [][NextPairs]_vars

(* a ratio optimized/original, 1.0 where the original count is 0, capped at
   1.0 *)
CappedRatio(optimized, original) ==
    IF original = 0 THEN ROne ELSE RMin(ROne, Rat(optimized, original))

(* C16: the quality score is 0.3, 0.4 and 0.3 times the message-count,
   code-count and adjacent-pair ratios, each ratio capped at 1.0 before
   weighting, so a ratio above 1 cannot make up for a loss in another. *)
C16_RatiosCappedBeforeWeighting ==
    (Optimized /\ call.messages # <<>>) =>
        result.quality_score =
            RAdd(RAdd(RMul(<<3, 10>>,
                           CappedRatio(Len(result.optimized_messages),
                                       Len(call.messages))),
                      RMul(<<4, 10>>,
                           CappedRatio(CodeCount(result.optimized_messages),
                                       CodeCount(call.messages)))),
                 RMul(<<3, 10>>,
                      CappedRatio(count_conversation_pairs(result.optimized_messages),
                                  count_conversation_pairs(call.messages))))

----------------------------------------------------------------------------
(* The Budget Selector on conversations that need truncation or dropping *)

MaxSelectionLen == 3

SelectionTemplates ==
    { Template("user", tX(8), None),
      Template("user", tX(208), None),
      Template("assistant", tX(600), None),
      Template("assistant", CodeSnippet, None) }

CallOptimizeSelection ==
    /\ call.op = "none"
    /\ \E ts \in TemplateSeqs(SelectionTemplates, MaxSelectionLen) :
        \E sim \in Sims(Len(ts)), max_tokens \in {53, 100},
           strategy \in {Some("statistical"), Some("hybrid")} :
            OptimizeContext(Conversation(ts), sim, max_tokens, strategy, FALSE)

NextSelection == CallOptimizeSelection \/ Return

SpecSelection == Init /\ [][NextSelection]_vars

StatisticalCalled == Optimized /\ call.strategy = Some("statistical")

(* the scores the selector is given for the call's conversation *)
SelectorScores ==
    apply_type_priority(call.messages,
        apply_time_decay(call.messages,
            calculate_relevance(call.messages, call.sim)))

(* the rank of original position p in the selector's walk *)
Rank(p) ==
    LET order == SortDesc(Len(call.messages), SelectorScores)
    IN  CHOOSE r \in 1..Len(order) : order[r] = p

(* original positions the result holds a message for, whole or derived *)
Kept == {result.optimized_messages[i].pos : i \in 1..Len(result.optimized_messages)}

(* original positions whose message the result holds as it was *)
KeptWhole ==
    {result.optimized_messages[i].pos :
        i \in {k \in 1..Len(result.optimized_messages) :
                  result.optimized_messages[k].oid # 0}}

(* C17: no operation mutates the input: every original message in the
   result still has every field it was passed with, and every truncated,
   flow-inserted or condensed message is a new object, not the original it
   was derived from. *)
C17_InputNotMutated ==
    Optimized =>
        \A i \in 1..Len(result.optimized_messages) :
            LET m == result.optimized_messages[i]
            IN  /\ m.oid # 0 => m = call.messages[m.oid]
                /\ ~MsgEq(m, call.messages[m.pos]) => m.oid = 0
                /\ (call.strategy = Some("hybrid") /\ contains_code(m.content))
                       => m.oid = 0

(* a result with an original message and a derived one *)
C17_Witness ==
    /\ Optimized
    /\ call.strategy = Some("hybrid")
    /\ \E i \in 1..Len(result.optimized_messages) :
           /\ result.optimized_messages[i].oid = 0
           /\ contains_code(result.optimized_messages[i].content)
    /\ \E i \in 1..Len(result.optimized_messages) :
           result.optimized_messages[i].oid # 0

(* C18: once the walk meets a message that neither fits nor qualifies for
   truncation, it stops: no message ranked after a message that was left out
   is in the selection. *)
C18_StopsAtFirstMisfit ==
    StatisticalCalled =>
        \A p \in 1..Len(call.messages), q \in 1..Len(call.messages) :
            (Rank(p) < Rank(q) /\ p \notin Kept) => q \notin Kept

(* C19: the selector makes at most one truncated copy; the message it cuts
   did not fit, the running total was below 80 percent of the budget and
   more than 50 tokens remained; the copy is the first remaining*4
   characters plus the marker, with the message's score; and no message
   ranked after it is selected. *)
C19_OneTruncatedFill ==
    StatisticalCalled =>
        LET ms == result.optimized_messages
            max_tokens == result.effective_max_tokens
            cut == {i \in 1..Len(ms) : ms[i].oid = 0}
            total_tokens ==
                SumTokens(SelectSeq(ms, LAMBDA m : m.oid # 0))
        IN  /\ Cardinality(cut) <= 1
            /\ \A i \in cut :
                LET original == call.messages[ms[i].pos]
                IN  /\ total_tokens + EstTokens(original.content) > max_tokens
                    /\ 5 * total_tokens < 4 * max_tokens
                    /\ max_tokens - total_tokens > 50
                    /\ ms[i].content =
                           Slice(original.content, (max_tokens - total_tokens) * 4)
                               \o TruncatedMarker
                    /\ ms[i].relevance_score = Some(SelectorScores[ms[i].pos])
                    /\ \A q \in Kept : Rank(q) <= Rank(ms[i].pos)

(* a selection of a whole message and a truncated copy, with a message
   ranked after the copy left out *)
C19_Witness ==
    /\ StatisticalCalled
    /\ Len(call.messages) = 3
    /\ Len(result.optimized_messages) = 2
    /\ \E i \in 1..2 : result.optimized_messages[i].oid = 0
    /\ \E i \in 1..2 : result.optimized_messages[i].oid # 0

(* C20: among messages of equal score the earlier one is considered first:
   of two messages of equal score and equal size the later one is selected
   only if the earlier one is. *)
C20_StableTies ==
    StatisticalCalled =>
        \A p \in 1..Len(call.messages), q \in 1..Len(call.messages) :
            (/\ p < q
             /\ SelectorScores[p] = SelectorScores[q]
             /\ StrLen(call.messages[p].content) = StrLen(call.messages[q].content))
            => /\ Rank(p) < Rank(q)
               /\ q \in Kept => p \in KeptWhole

(* two messages of equal score and size of which only the earlier fits *)
C20_Witness ==
    /\ StatisticalCalled
    /\ \E p \in 1..Len(call.messages), q \in 1..Len(call.messages) :
           /\ p < q
           /\ SelectorScores[p] = SelectorScores[q]
           /\ StrLen(call.messages[p].content) = StrLen(call.messages[q].content)
           /\ p \in KeptWhole
           /\ q \notin Kept

----------------------------------------------------------------------------
(* HybridOptimizer.optimize, stage by stage *)

(* mutant: the selection stage runs on four fifths of the budget *)
HybridOptimizeStages_Headroom(messages, sim, max_tokens) ==
    LET statistical_result ==
            StatisticalOptimize(messages, sim, (4 * max_tokens) \div 5)
        flow_optimized == preserve_conversation_flow(messages, statistical_result)
        code_enhanced == enhance_code_context(flow_optimized)
    IN  [statistical_result |-> statistical_result,
         flow_optimized |-> flow_optimized,
         code_enhanced |-> code_enhanced,
         final_result |-> final_token_fitting(code_enhanced, max_tokens)]

(* the intermediate lists of HybridOptimizer.optimize, under the names of
   its local variables *)
HybridOptimizeStages(messages, sim, max_tokens) ==
    LET statistical_result == StatisticalOptimize(messages, sim, max_tokens)
        flow_optimized == preserve_conversation_flow(messages, statistical_result)
        code_enhanced == enhance_code_context(flow_optimized)
    IN  [statistical_result |-> statistical_result,
         flow_optimized |-> flow_optimized,
         code_enhanced |-> code_enhanced,
         final_result |-> final_token_fitting(code_enhanced, max_tokens)]

MaxStagesLen == 3

StagesTemplates ==
    { Template("user", tX(8), None),
      Template("user", tX(208), None),
      Template("assistant", tX(8), None),
      Template("assistant", tX(600), None),
      Template("assistant", CodeSnippet, None),
      Template("user", tX(208), Some(1)),
      Template("assistant", tX(600), Some(0)) }

StagesBudgets == {0, 54, 100}

HybridOptimizerOptimize(messages, sim, max_tokens) ==
    /\ call' = [op |-> "hybrid_optimize", messages |-> messages, sim |-> sim,
                max_tokens |-> max_tokens, strategy |-> Some("hybrid"),
                preserve_quality |-> FALSE]
    /\ result' = HybridOptimizeStages(messages, sim, max_tokens)
    /\ UNCHANGED <<strategies, strategy_keys, default_strategy, registered, returned>>

CallHybridStages ==
    /\ call.op = "none"
    /\ \E ts \in TemplateSeqs(StagesTemplates, MaxStagesLen) :
        \E sim \in Sims(Len(ts)), max_tokens \in StagesBudgets :
            HybridOptimizerOptimize(Conversation(ts), sim, max_tokens)

NextStages == CallHybridStages \/ Return

SpecStages == Init /\ [][NextStages]_vars

StagesDone == call.op = "hybrid_optimize"

(* the list holds this very message: same object for an original, same
   fields and position for a derived copy *)
Holds(ms, m) == \E i \in 1..Len(ms) : ms[i] = m

(* C21: flow preservation removes nothing already selected: every message
   of the selector's output, the truncated fill copy included, is still in
   the working set after flow preservation, whatever the selection size. *)
C21_FlowKeepsSelection ==
    StagesDone =>
        \A i \in 1..Len(result.statistical_result) :
            Holds(result.flow_optimized, result.statistical_result[i])

(* the original at position p is a user message the selector took whole,
   followed in the original by an assistant message it did not take whole *)
UnansweredUser(p) ==
    /\ p + 1 <= Len(call.messages)
    /\ call.messages[p].role = "user"
    /\ Holds(result.statistical_result, call.messages[p])
    /\ call.messages[p + 1].role = "assistant"
    /\ ~Holds(result.statistical_result, call.messages[p + 1])

(* m is the derived copy of the original at position q: a new message with
   the original's role, timestamp and type, its content cut to the first
   500 characters plus "..." when longer, and relevance 0.5 *)
IsFlowCopy(m, q) ==
    LET next_msg == call.messages[q]
    IN  /\ m.oid = 0
        /\ m.pos = q
        /\ m.role = next_msg.role
        /\ m.timestamp = next_msg.timestamp
        /\ m.message_type = next_msg.message_type
        /\ m.relevance_score = Some(<<1, 2>>)
        /\ m.content =
               IF StrLen(next_msg.content) > FlowContentCap
               THEN Slice(next_msg.content, FlowContentCap) \o Ellipsis
               ELSE next_msg.content

(* the working set holds the copy of the reply right after the user message *)
AnsweredInFlow(p) ==
    \E i \in 1..(Len(result.flow_optimized) - 1) :
        /\ result.flow_optimized[i] = call.messages[p]
        /\ IsFlowCopy(result.flow_optimized[i + 1], p + 1)

(* C22 as stated: after flow preservation every selected user message that
   is followed in the original by an unselected assistant message has a
   derived copy of that message right after it, for every number of
   selected messages, one or two included. *)
C22_FlowCopyAlways ==
    StagesDone =>
        \A p \in 1..Len(call.messages) : UnansweredUser(p) => AnsweredInFlow(p)

(* C22 amended: with more than two messages selected, every user message
   selected whole that is followed in the original by an assistant message
   not selected whole has the derived copy of that message right after it;
   with one or two messages selected the working set is the selection,
   unchanged. *)
C22_FlowCopyWhenMoreThanTwo ==
    StagesDone =>
        IF Len(result.statistical_result) <= 2
        THEN result.flow_optimized = result.statistical_result
        ELSE \A p \in 1..Len(call.messages) :
                 UnansweredUser(p) => AnsweredInFlow(p)

(* three messages selected, a reply of more than 500 characters copied in *)
C22_Witness ==
    /\ StagesDone
    /\ Len(result.statistical_result) > 2
    /\ \E p \in 1..Len(call.messages) :
           /\ UnansweredUser(p)
           /\ AnsweredInFlow(p)
           /\ StrLen(call.messages[p + 1].content) > FlowContentCap

(* the relevance of a message of the working set: the score it carries
   (the selector's for a truncated fill copy, 0.5 for a flow copy), else the
   adjusted score the selector ranked its original by *)
WorkingScore(m) ==
    IF m.relevance_score # None THEN m.relevance_score[1]
    ELSE SelectorScores[m.pos]

(* the final re-fit had to shrink the working set *)
RefitShrinks == StagesDone /\ SumTokens(result.code_enhanced) > call.max_tokens

(* C23: when the final re-fit shrinks an over-budget working set it drops
   messages in ascending relevance order: no dropped message has a higher
   relevance score than a kept message. *)
C23_DropsAscending ==
    RefitShrinks =>
        \A i \in 1..Len(result.code_enhanced), j \in 1..Len(result.final_result) :
            ~Holds(result.final_result, result.code_enhanced[i])
                => RLe(WorkingScore(result.code_enhanced[i]),
                       WorkingScore(result.final_result[j]))

(* C24: for a non-negative budget the hybrid strategy's final output has a
   total of len(content)//4 of at most the budget, and a working set that
   already fits is returned by the re-fit unchanged. *)
C24_HybridWithinBudget ==
    (StagesDone /\ call.max_tokens >= 0) =>
        /\ SumTokens(result.final_result) <= call.max_tokens
        /\ SumTokens(result.code_enhanced) <= call.max_tokens
               => result.final_result = result.code_enhanced

(* an over-budget working set of which the re-fit keeps a part *)
C24_Witness ==
    /\ RefitShrinks
    /\ Len(result.final_result) >= 2
    /\ Len(result.final_result) < Len(result.code_enhanced)

----------------------------------------------------------------------------
(* StatisticalOptimizer._apply_time_decay on its own *)

MaxDecayLen == 3

(* timestamps in days: absent, and days 0, 1 and 2000 *)
DecayTemplates ==
    { Template("user", tX(8), ts) : ts \in {None, Some(0), Some(1), Some(2000)} }

BaseScores == {RZero, ROne}

ApplyTimeDecay(messages, relevance_scores) ==
    /\ call' = [op |-> "apply_time_decay", messages |-> messages,
                relevance_scores |-> relevance_scores]
    /\ result' =
           IF time_decay_exception(messages) # None
           THEN Raised(time_decay_exception(messages)[1])
           ELSE [decayed_scores |-> apply_time_decay(messages, relevance_scores),
                 exception |-> None]
    /\ UNCHANGED <<strategies, strategy_keys, default_strategy, registered, returned>>

CallApplyTimeDecay ==
    /\ call.op = "none"
    /\ \E ts \in TemplateSeqs(DecayTemplates, MaxDecayLen) :
        \E relevance_scores \in [1..Len(ts) -> BaseScores] :
            ApplyTimeDecay(Conversation(ts), relevance_scores)

NextDecay == CallApplyTimeDecay \/ Return

SpecDecay == Init /\ [][NextDecay]_vars

DecayCalled == call.op = "apply_time_decay"

(* C25: time decay anchors on the maximum timestamp, so it returns, no
   score is raised above its base score or lowered below 30 percent of it,
   and a message without timestamp is multiplied by
   0.5 + 0.5 * position / total, as is every message when none has a
   timestamp. *)
C25_DecayWithinBaseRange ==
    DecayCalled =>
        /\ result.exception = None
        /\ \A i \in 1..Len(call.messages) :
            LET base == call.relevance_scores[i]
                decayed == result.decayed_scores[i]
            IN  /\ RLe(decayed, base)
                /\ RLe(RMul(<<3, 10>>, base), decayed)
                /\ call.messages[i].timestamp = None
                       => decayed = RMul(base, PositionFactor(i - 1, Len(call.messages)))

----------------------------------------------------------------------------
(* the two tests for code: StatisticalOptimizer._detect_message_type and
   HybridOptimizer._contains_code *)

CategoryContents ==
    { tX(8), tX(7) \o tQm, tHow \o tX(5), CodeSnippet,
      tDef \o tX(3), tClass \o tX(3) }

CategoryMessages ==
    { Msg(role, content, None, None, None, Some("response"), 1, 1) :
        role \in {"user", "assistant", "system"}, content \in CategoryContents }

DetectMessageType(message) ==
    /\ call' = [op |-> "detect_message_type", message |-> message]
    /\ result' = [message_type |-> detect_message_type(message),
                  multiplier |-> priority_multipliers(detect_message_type(message))]
    /\ UNCHANGED <<strategies, strategy_keys, default_strategy, registered, returned>>

ContainsCode(message) ==
    /\ call' = [op |-> "contains_code", message |-> message]
    /\ result' = [contains_code |-> contains_code(message.content)]
    /\ UNCHANGED <<strategies, strategy_keys, default_strategy, registered, returned>>

CallDetectMessageType ==
    /\ call.op = "none"
    /\ \E message \in CategoryMessages : DetectMessageType(message)

CallContainsCode ==
    /\ call.op = "none"
    /\ \E message \in CategoryMessages : ContainsCode(message)

NextCategories == CallDetectMessageType \/ CallContainsCode \/ ReturnRemembered

SpecCategories == Init /\ [][NextCategories]_vars

(* C26: one categorization rule serves the type-priority adjuster and the
   code post-processor: the adjuster classifies a message as code (x1.5)
   exactly when code condensation treats the same message as code. *)
C26_OneCategorization ==
    \A r \in returned :
        (/\ r[1].op = "detect_message_type"
         /\ call.op = "contains_code"
         /\ r[1].message = call.message)
        => /\ (r[2].message_type = "code") <=> result.contains_code
           /\ (r[2].multiplier = <<3, 2>>) <=> result.contains_code

----------------------------------------------------------------------------
(* StatisticalOptimizer.calculate_relevance on its own, without a query *)

MaxRelevanceLen == 3

RelevanceTemplates ==
    { Template("user", tX(8), None), Template("assistant", tX(208), None) }

(* the cosine of two TF-IDF vectors, whose components are not negative *)
Cosines == {RZero, <<1, 2>>, ROne}

RelevanceSims(n) ==
    IF n <= 2 THEN {[p \in Pairs(n) |-> RZero]} ELSE [Pairs(n) -> Cosines]

CalculateRelevance(messages, sim) ==
    /\ call' = [op |-> "calculate_relevance", messages |-> messages, sim |-> sim]
    /\ result' = [relevance_scores |-> calculate_relevance(messages, sim)]
    /\ UNCHANGED <<strategies, strategy_keys, default_strategy, registered, returned>>

CallCalculateRelevance ==
    /\ call.op = "none"
    /\ \E ts \in TemplateSeqs(RelevanceTemplates, MaxRelevanceLen) :
        \E sim \in RelevanceSims(Len(ts)) :
            CalculateRelevance(Conversation(ts), sim)

NextRelevance == CallCalculateRelevance \/ Return

SpecRelevance == Init /\ [][NextRelevance]_vars

RelevanceCalled == call.op = "calculate_relevance"

(* C27: calculate_relevance returns one score per input message, in input
   order (the i-th score is the i-th message's average similarity to the
   others), each score at least 0; the empty list for no message; and the
   single score 0 for a single message without a query. *)
C27_OneScorePerMessage ==
    RelevanceCalled =>
        LET n == Len(call.messages)
            scores == result.relevance_scores
        IN  /\ Len(scores) = n
            /\ \A i \in 1..n : RLe(RZero, scores[i])
            /\ n = 0 => scores = <<>>
            /\ n = 1 => scores = <<RZero>>
            /\ n > 1 => \A i \in 1..n :
                   RMul(scores[i], <<n - 1, 1>>) = SumSim(call.sim, i, 1, n)

(* three messages whose scores are not all the same *)
C27_Witness ==
    /\ RelevanceCalled
    /\ Len(call.messages) = 3
    /\ result.relevance_scores[1] # result.relevance_scores[3]
    /\ RLt(RZero, result.relevance_scores[2])

(* what the engine returns for the call's conversation and budget under the
   named strategy, without quality preservation *)
EngineOutput(strategy) ==
    optimize_context(strategies, default_strategy, call.messages, call.sim,
                     call.max_tokens, Some(strategy), FALSE).optimized_messages

(* C28: the hybrid strategy's selection stage is the statistical strategy:
   the working set handed to flow preservation is the statistical
   strategy's output for the same inputs, and the hybrid result is that
   output passed through flow insertion, condensation and the final re-fit,
   so the two results are equal where none of the three acts. *)
C28_HybridSelectsStatistically ==
    StagesDone =>
        /\ result.statistical_result = EngineOutput("statistical")
        /\ EngineOutput("hybrid") =
               final_token_fitting(
                   enhance_code_context(
                       preserve_conversation_flow(call.messages,
                                                  EngineOutput("statistical"))),
                   call.max_tokens)
        /\ (/\ result.flow_optimized = result.statistical_result
            /\ result.code_enhanced = result.flow_optimized
            /\ result.final_result = result.code_enhanced)
               => EngineOutput("hybrid") = EngineOutput("statistical")

(* a hybrid result that differs from the statistical one by a flow copy *)
C28_Witness ==
    /\ StagesDone
    /\ Len(result.statistical_result) > 2
    /\ result.flow_optimized # result.statistical_result
    /\ result.final_result = result.flow_optimized
    /\ EngineOutput("hybrid") # EngineOutput("statistical")

(* no two messages of the list stand for the same original position *)
DistinctPositions(ms) ==
    \A i \in 1..Len(ms), j \in 1..Len(ms) : ms[i].pos = ms[j].pos => i = j

(* C29: under both registered strategies the number of optimized messages
   never exceeds the number of original messages: flow preservation inserts
   a copy only for an original position the working set does not hold yet,
   so every list of the pipeline has at most one message per position. *)
C29_NoMoreMessagesThanOriginal ==
    StagesDone =>
        /\ Len(EngineOutput("statistical")) <= Len(call.messages)
        /\ Len(EngineOutput("hybrid")) <= Len(call.messages)
        /\ DistinctPositions(result.statistical_result)
        /\ DistinctPositions(result.flow_optimized)
        /\ Len(result.flow_optimized) <= Len(call.messages)
        /\ Len(result.final_result) <= Len(result.flow_optimized)

(* a flow copy that brings the working set to the size of the original *)
C29_Witness ==
    /\ StagesDone
    /\ Len(result.statistical_result) > 2
    /\ \E i \in 1..Len(result.flow_optimized) :
           /\ result.flow_optimized[i].oid = 0
           /\ result.flow_optimized[i].relevance_score = Some(<<1, 2>>)
    /\ Len(result.flow_optimized) = Len(call.messages)

----------------------------------------------------------------------------
(* HybridOptimizer._condense_code_content on its own *)

MaxCondenseLines == 4

(* a short and a long statement, an indented one, a definition, a line
   ending in a colon, a fence and a blank line *)
CondenseLineSet ==
    { tX(1), tX(10), tSp(2) \o tX(1), tDef \o tX(3), tX(3) \o tColon,
      tFence, <<>> }

CondenseContents ==
    { JoinLines(ls) : ls \in UNION {[1..k -> CondenseLineSet] : k \in 1..MaxCondenseLines} }

CondenseCodeContent(content) ==
    /\ call' = [op |-> "condense_code_content", content |-> content]
    /\ result' = [condensed |-> condense_code_content(content)]
    /\ UNCHANGED <<strategies, strategy_keys, default_strategy, registered, returned>>

CallCondenseCodeContent ==
    /\ call.op = "none"
    /\ \E content \in CondenseContents : CondenseCodeContent(content)

NextCondense == CallCondenseCodeContent \/ Return

SpecCondense == Init /\ [][NextCondense]_vars

CondenseCalled == call.op = "condense_code_content"

(* C30: code condensation never makes a content longer: the condensed
   content has at most as many characters as the original, and no two
   consecutive lines of it are elision markers. *)
C30_CondensationNeverLonger ==
    CondenseCalled =>
        LET lines == SplitLines(result.condensed, <<>>)
        IN  /\ StrLen(result.condensed) <= StrLen(call.content)
            /\ \A i \in 1..(Len(lines) - 1) :
                   ~(EndsWithElision(lines[i]) /\ EndsWithElision(lines[i + 1]))

====
